---- MODULE Spec2Model ----
(***************************************************************************)
(* Kunitz-domain HMM pipeline (src/hmm.py) and novelty check               *)
(* (src/novelty_check.py) as state machines.                               *)
(*                                                                         *)
(* Several specifications share the module's variables; each one drives    *)
(* one part of the program and leaves the variables of the other parts at  *)
(* their idle values:                                                      *)
(*   Spec        one run of the pipeline, src/hmm.py __main__              *)
(*   SpecEval    evaluate_performance on arbitrary input sets              *)
(*   SpecLabels  check_label_txt and load_labels on arbitrary label files  *)
(*   SpecHits    parse_tblout and load_hmm_hits on arbitrary hit tables    *)
(*   SpecNovelty the novelty pass, src/novelty_check.py main               *)
(*   SpecRuns    a sequence of runs sharing the results directory          *)
(*                                                                         *)
(* Text is modelled at the level the code reads it: a file is a sequence   *)
(* of lines, a line the sequence of its whitespace-separated tokens        *)
(* (line.split()), a token a sequence of one-character strings.  A line    *)
(* is taken to start with its first token (no leading whitespace), so      *)
(* line.startswith("#") is a test on the first character of the first      *)
(* token.                                                                  *)
(***************************************************************************)
EXTENDS Naturals, Integers, Sequences, FiniteSets, TLC

\* ------------------------------------------------------------------------
\* Bounds
\* ------------------------------------------------------------------------

\* number of sequence identifiers the evaluation inputs are drawn from
NumIds == 5

IdNames == <<"a", "b", "c", "d", "e", "f", "g">>

Ids == {IdNames[i] : i \in 1..NumIds}

\* number of identifiers that label files mention
NumFileIds == 2

\* longest label file, in lines
MaxLabelLines == 3

\* longest raw identifier of a hit table, in characters
MaxTokLen == 4

\* longest hit table, in lines
MaxHitLines == 1

\* number of identifiers the pipeline's label files and hit tables mention
NumPipeIds == 1

\* longest label file of a pipeline run, in lines
MaxPipeLines == 1

VARIABLES
    \* --- one run of the pipeline (Spec)
    pc,                 \* the statement of __main__ about to run
    child,              \* the external tool the run is blocked on, or "none"
    exit_code,          \* "none" while running, then the process exit status
    stdout, stderr,     \* the messages printed so far
    files,              \* the run's output directory: file name -> file
    validation_labels, negative_labels,    \* the configured label files
    val_predicted, val_positives, val_negatives,
    neg_predicted, neg_positives, neg_negatives,
    all_predicted, all_positives, all_negatives,
    metrics, swiss_hits,
    \* --- evaluate_performance called on its own (SpecEval)
    e_predicted, e_positives, e_negatives, e_result, e_called,
    \* --- check_label_txt / load_labels called on their own (SpecLabels)
    l_file, l_check, l_result, l_loaded,
    \* --- parse_tblout / load_hmm_hits called on their own (SpecHits)
    h_file, h_eval, h_nov, h_pc,
    \* --- one run of novelty_check.py's main (SpecNovelty)
    n_pc,               \* the statement of main about to run
    n_todo,             \* sorted(entry_names) still to be checked
    n_entry,            \* the loop variable entry_name
    n_accession,        \* the accession found for it, or None
    n_novel,            \* the list novel
    n_requests,         \* the requests made so far and their responses
    n_out,              \* results/novel_kunitz_candidates.txt
    \* --- a sequence of runs over one results/ directory (SpecRuns)
    r_clock,            \* datetime.now(), in minutes
    r_run,              \* the number of the run in progress or last ended
    r_kind,             \* "none", "pipeline" or "novelty"
    r_dir,              \* the output directory of the run in progress
    r_step,             \* the next artifact the run in progress writes
    r_status,           \* run number -> "none", "running", "ok", "failed"
    r_dirs,             \* the run_* directories, least recently modified first
    r_fs,               \* path -> the run whose write it holds, 0: absent
    r_log               \* every write or reuse of a file so far

evalVars == <<e_predicted, e_positives, e_negatives, e_result, e_called>>

labelVars == <<l_file, l_check, l_result, l_loaded>>

hitVars == <<h_file, h_eval, h_nov, h_pc>>

pipeVars == <<pc, child, exit_code, stdout, stderr, files,
              validation_labels, negative_labels,
              val_predicted, val_positives, val_negatives,
              neg_predicted, neg_positives, neg_negatives,
              all_predicted, all_positives, all_negatives,
              metrics, swiss_hits>>

noveltyVars == <<n_pc, n_todo, n_entry, n_accession, n_novel, n_requests,
                 n_out>>

runVars == <<r_clock, r_run, r_kind, r_dir, r_step, r_status, r_dirs, r_fs,
             r_log>>

vars == <<pipeVars, evalVars, labelVars, hitVars, noveltyVars, runVars>>

\* what each specification leaves unchanged
notPipeVars == <<evalVars, labelVars, hitVars, noveltyVars, runVars>>

notEvalVars == <<pipeVars, labelVars, hitVars, noveltyVars, runVars>>

notLabelVars == <<pipeVars, evalVars, hitVars, noveltyVars, runVars>>

notHitVars == <<pipeVars, evalVars, labelVars, noveltyVars, runVars>>

notNoveltyVars == <<pipeVars, evalVars, labelVars, hitVars, runVars>>

notRunVars == <<pipeVars, evalVars, labelVars, hitVars, noveltyVars>>

\* ------------------------------------------------------------------------
\* Text: tokens, lines, files
\* ------------------------------------------------------------------------

\* a one-character token
Tok(c) == <<c>>

\* the identifiers a label file may mention, as tokens
FileIds == {Tok(IdNames[i]) : i \in 1..NumFileIds}

\* the identifiers of a pipeline run's inputs, as tokens
PipeIds == {Tok(IdNames[i]) : i \in 1..NumPipeIds}

\* a file on storage: present or not, and its lines
File(lines) == [exists |-> TRUE, data |-> lines]

AbsentFile == [exists |-> FALSE, data |-> <<>>]

\* all sequences over S of length at most n
SeqsUpTo(S, n) == UNION {[1..k -> S] : k \in 0..n}

\* line.startswith("#")
StartsWithHash(line) == Len(line) > 0 /\ Len(line[1]) > 0 /\ line[1][1] = "#"

\* not line.strip()
IsBlank(line) == Len(line) = 0

\* str.split(sep): the segments of s between the occurrences of sep
RECURSIVE py_split(_, _)
py_split(s, sep) ==
    IF s = <<>> THEN << <<>> >>
    ELSE LET rest == py_split(Tail(s), sep)
         IN  IF Head(s) = sep THEN << <<>> >> \o rest
             ELSE << <<Head(s)>> \o Head(rest) >> \o Tail(rest)

\* ------------------------------------------------------------------------
\* evaluate_performance (src/hmm.py:181-191)
\* ------------------------------------------------------------------------

\* a Python ratio n/d, kept exact as a numerator/denominator pair
Ratio(n, d) == [num |-> n, den |-> d]

\* the literal 0 of the "... if denominator else 0" branches
ZeroRatio == [num |-> 0, den |-> 1]

NoMetrics == [TP |-> 0, FP |-> 0, FN |-> 0, TN |-> 0,
              accuracy |-> ZeroRatio, precision |-> ZeroRatio,
              recall |-> ZeroRatio, f1 |-> ZeroRatio]

\* a plausible slip: FN counted as the positives that WERE predicted and TN
\* as all negatives
evaluate_performance_mut(predicted, positives, negatives) ==
    LET tp == Cardinality(predicted \cap positives)
        fp == Cardinality(predicted \cap negatives)
        fn == Cardinality(positives \cap predicted)
        tn == Cardinality(negatives)
    IN  [NoMetrics EXCEPT !.TP = tp, !.FP = fp, !.FN = fn, !.TN = tn]

\* a plausible slip: the ratios are computed without their
\* "if denominator else 0" guards
evaluate_performance_unguarded(predicted, positives, negatives) ==
    LET tp == Cardinality(predicted \cap positives)
        fp == Cardinality(predicted \cap negatives)
        fn == Cardinality(positives \ predicted)
        tn == Cardinality(negatives \ predicted)
        prec == Ratio(tp, tp + fp)
        rec == Ratio(tp, tp + fn)
    IN  [TP |-> tp, FP |-> fp, FN |-> fn, TN |-> tn,
         accuracy |-> Ratio(tp + tn, tp + tn + fp + fn),
         precision |-> prec, recall |-> rec,
         f1 |-> Ratio(2 * prec.num * rec.num,
                      prec.num * rec.den + rec.num * prec.den)]

\* a plausible slip: every predicted identifier that is not a positive is
\* counted as a false positive
evaluate_performance_fp_mut(predicted, positives, negatives) ==
    LET tp == Cardinality(predicted \cap positives)
        fp == Cardinality(predicted \ positives)
        fn == Cardinality(positives \ predicted)
        tn == Cardinality(negatives \ predicted)
    IN  [NoMetrics EXCEPT !.TP = tp, !.FP = fp, !.FN = fn, !.TN = tn]

evaluate_performance(predicted, positives, negatives) ==
    LET tp == Cardinality(predicted \cap positives)
        fp == Cardinality(predicted \cap negatives)
        fn == Cardinality(positives \ predicted)
        tn == Cardinality(negatives \ predicted)
        total == tp + tn + fp + fn
        acc == IF total # 0 THEN Ratio(tp + tn, total) ELSE ZeroRatio
        prec == IF tp + fp # 0 THEN Ratio(tp, tp + fp) ELSE ZeroRatio
        rec == IF tp + fn # 0 THEN Ratio(tp, tp + fn) ELSE ZeroRatio
        \* prec + rec = (prec.num*rec.den + rec.num*prec.den)/(prec.den*rec.den)
        sumNum == prec.num * rec.den + rec.num * prec.den
        f1 == IF sumNum # 0 THEN Ratio(2 * prec.num * rec.num, sumNum)
              ELSE ZeroRatio
    IN  [TP |-> tp, FP |-> fp, FN |-> fn, TN |-> tn,
         accuracy |-> acc, precision |-> prec, recall |-> rec, f1 |-> f1]

\* the except branch of load_labels: "Error loading labels", sys.exit(1)
LabelsExit == [ok |-> FALSE, pos |-> {}, neg |-> {}]

\* the except branch of parse_tblout: "Error parsing tblout file", sys.exit(1)
TbloutExit == [ok |-> FALSE, hits |-> {}]

\* ------------------------------------------------------------------------
\* parse_tblout (src/hmm.py:152-165),
\* extract_entry_name, load_hmm_hits (src/novelty_check.py:25-29, 50-62)
\* ------------------------------------------------------------------------

\* the for loop over the lines, with the hits collected so far
RECURSIVE parse_tblout_loop(_, _)
parse_tblout_loop(lines, hits) ==
    IF lines = <<>> THEN [ok |-> TRUE, hits |-> hits]
    ELSE LET line == Head(lines)
         IN  IF StartsWithHash(line)
             THEN parse_tblout_loop(Tail(lines), hits)
             ELSE IF Len(line) > 0    \* if parts:
             THEN parse_tblout_loop(Tail(lines), hits \cup {line[1]})
             ELSE parse_tblout_loop(Tail(lines), hits)

parse_tblout(tbl_file) ==
    IF ~tbl_file.exists THEN TbloutExit   \* open() raises
    ELSE parse_tblout_loop(tbl_file.data, {})

\* a plausible slip: the range suffix is kept
extract_entry_name_mut(hit_id) == hit_id

\* hit_id.split('/')[0]
extract_entry_name(hit_id) == py_split(hit_id, "/")[1]

RECURSIVE load_hmm_hits_loop(_, _)
load_hmm_hits_loop(lines, hits) ==
    IF lines = <<>> THEN [ok |-> TRUE, hits |-> hits]
    ELSE LET line == Head(lines)
         IN  IF StartsWithHash(line) \/ IsBlank(line)
             THEN load_hmm_hits_loop(Tail(lines), hits)
             ELSE load_hmm_hits_loop(Tail(lines),
                                     hits \cup {extract_entry_name(line[1])})

\* open() is not guarded here: a missing file ends the script with the
\* uncaught exception
load_hmm_hits(hmm_results_file) ==
    IF ~hmm_results_file.exists THEN TbloutExit
    ELSE load_hmm_hits_loop(hmm_results_file.data, {})

\* the characters raw identifiers are built from: a letter, the separator
\* of the db|accession|entry form and the separator of a range suffix
HitChars == {"s", "|", "/"}

\* the raw identifiers named in the repository's documentation
RawSwissProt ==
    <<"s", "p", "|", "P", "8", "4", "8", "7", "5", "|",
      "P", "C", "P", "I", "_", "S", "A", "B", "M", "A">>

RawRanged ==
    <<"A", "P", "L", "P", "2", "_", "H", "U", "M", "A", "N", "/",
      "3", "0", "9", "-", "3", "6", "1">>

RawBare == <<"P", "1", "2", "3", "4", "5">>

RawTokens ==
    (SeqsUpTo(HitChars, MaxTokLen) \ {<<>>})
    \cup {RawSwissProt, RawRanged, RawBare}

\* the lines of a hit table: blank, comment, and one row per raw identifier
\* (the row's other columns are one token here; the parsers never read them)
HitLines ==
    {<<>>, << Tok("#"), Tok("-") >>}
    \cup {<<raw, Tok("-")>> : raw \in RawTokens}

\* ------------------------------------------------------------------------
\* check_label_txt (src/hmm.py:66-75), load_labels (src/hmm.py:167-179)
\* ------------------------------------------------------------------------

\* False when the file is missing or empty, or some non-blank line does not
\* split into two tokens (comment lines are not exempt)
check_label_txt(file) ==
    /\ file.exists
    /\ file.data # <<>>
    /\ \A i \in DOMAIN file.data :
          IsBlank(file.data[i]) \/ Len(file.data[i]) = 2

\* the for loop over the lines, with the sets built so far
RECURSIVE load_labels_loop(_, _, _)
load_labels_loop(lines, pos, neg) ==
    IF lines = <<>> THEN [ok |-> TRUE, pos |-> pos, neg |-> neg]
    ELSE LET line == Head(lines)
         IN  IF StartsWithHash(line) \/ IsBlank(line)
             THEN load_labels_loop(Tail(lines), pos, neg)
             ELSE IF Len(line) # 2
             THEN LabelsExit   \* seqid, label = ... raises ValueError
             ELSE IF line[2] = Tok("1")
             THEN load_labels_loop(Tail(lines), pos \cup {line[1]}, neg)
             ELSE load_labels_loop(Tail(lines), pos, neg \cup {line[1]})

load_labels(label_file) ==
    IF ~label_file.exists THEN LabelsExit   \* open() raises
    ELSE load_labels_loop(label_file.data, {}, {})

\* the label tokens tried: the two legal ones and a stray one
LabelToks == {Tok("1"), Tok("0"), Tok("x")}

\* the lines a label file is built from: blank, comments of one and of two
\* tokens, and records of one, two and three tokens
LabelLines ==
    {<<>>, << <<"#", "c">> >>, << Tok("#"), Tok("c") >>}
    \cup {<<i>> : i \in FileIds}
    \cup {<<i, l>> : i \in FileIds, l \in LabelToks}
    \cup {<<i, Tok("1"), Tok("1")>> : i \in FileIds}

LabelFiles ==
    {AbsentFile} \cup {File(ls) : ls \in SeqsUpTo(LabelLines, MaxLabelLines)}

\* ------------------------------------------------------------------------
\* The pipeline: src/hmm.py, run_hmmbuild .. run_hmmlogo and __main__
\* ------------------------------------------------------------------------

\* a plausible slip: the SwissProt search and parse moved up to the other
\* searches, before the evaluation
MainOrder_mut == <<
    "load_config", "seed_fasta", "validation_fasta", "check_files",
    "hmmbuild",
    "search_validation", "parse_validation", "labels_validation",
    "search_negative", "parse_negative", "labels_negative",
    "search_swissprot", "parse_swissprot",
    "combine", "evaluate", "write_fp", "write_fn",
    "hmmlogo", "finish" >>

\* the statements of __main__ in source order (lines 207-292)
MainOrder == <<
    "load_config",          \* 207
    "seed_fasta",           \* 219-221
    "validation_fasta",     \* 224-226
    "check_files",          \* 229-238
    "hmmbuild",             \* 241-242
    "search_validation",    \* 245
    "parse_validation",     \* 246
    "labels_validation",    \* 247
    "search_negative",      \* 250
    "parse_negative",       \* 251
    "labels_negative",      \* 252
    "combine",              \* 255-257
    "evaluate",             \* 260-264
    "write_fp",             \* 267-275
    "write_fn",             \* 277-282
    "search_swissprot",     \* 285
    "parse_swissprot",      \* 286-287
    "hmmlogo",              \* 290
    "finish" >>             \* 292

\* the statement after p; "done" after the last one
NextPc(p) ==
    LET i == CHOOSE k \in DOMAIN MainOrder : MainOrder[k] = p
    IN  IF i = Len(MainOrder) THEN "done" ELSE MainOrder[i + 1]

\* the cohorts searched, by run_hmmsearch's tag
Tags == {"validation", "negative", "swissprot"}

\* tblout = output_dir / f"hmmsearch_{tag}.tbl"
TblName(tag) ==
    CASE tag = "validation" -> "hmmsearch_validation.tbl"
      [] tag = "negative" -> "hmmsearch_negative.tbl"
      [] tag = "swissprot" -> "hmmsearch_swissprot.tbl"

SearchPc(tag) ==
    CASE tag = "validation" -> "search_validation"
      [] tag = "negative" -> "search_negative"
      [] tag = "swissprot" -> "search_swissprot"

ParsePc(tag) ==
    CASE tag = "validation" -> "parse_validation"
      [] tag = "negative" -> "parse_negative"
      [] tag = "swissprot" -> "parse_swissprot"

\* the files a run writes into its output directory
ArtifactNames ==
    {"seed.fasta", "kunitz.hmm", "hmmsearch_validation.tbl",
     "hmmsearch_negative.tbl", "false_positives.txt", "false_negatives.txt",
     "hmmsearch_swissprot.tbl", "hmm_logo.png"}

\* sorted(ids), one identifier per element (single-character identifiers
\* sort in the order of IdNames)
RECURSIVE SortedFrom(_, _)
SortedFrom(i, S) ==
    IF i > Len(IdNames) THEN <<>>
    ELSE (IF Tok(IdNames[i]) \in S THEN << Tok(IdNames[i]) >> ELSE <<>>)
         \o SortedFrom(i + 1, S)

\* the lines "seq_id\n" written for the sorted identifiers
IdLines(S) == [i \in 1..Cardinality(S) |-> << SortedFrom(1, S)[i] >>]

\* a --tblout table reporting the targets S: a comment header and one row
\* per target (the columns after the target name are one token here)
TableOf(S) ==
    File(<< << Tok("#"), Tok("-") >> >>
         \o [i \in 1..Cardinality(S) |-> << SortedFrom(1, S)[i], Tok("-") >>])

\* a plausible slip: the failure is printed but sys.exit(1) is missing
run_hmmsearch_outcome_mut(rc) == "return"

\* run_hmmsearch, lines 145-150: return tblout, or print and sys.exit(1) on
\* CalledProcessError
run_hmmsearch_outcome(rc) == IF rc = 0 THEN "return" ELSE "exit"

\* a plausible slip: the failure is printed but the run goes on
run_tool_outcome_mut(rc) == "return"

\* run_hmmbuild, lines 130-134, and run_hmmlogo, lines 197-202: return, or
\* print and sys.exit(1) on CalledProcessError
run_tool_outcome(rc) == IF rc = 0 THEN "return" ELSE "exit"

\* line 255
combine_predicted(val, neg) == val \cup neg

\* a plausible slip: the negative cohort's positives are merged in too
combine_positives_mut(val, neg) == val \cup neg

\* line 256: "Positives only from validation labels"
combine_positives(val, neg) == val

\* line 257
combine_negatives(val, neg) == val \cup neg

\* the label lines of the pipeline's label files: well-formed records and
\* one record lacking its label
PipeLabelLines ==
    {<<i, l>> : i \in PipeIds, l \in {Tok("1"), Tok("0")}}
    \cup {<< Tok("a") >>}

PipeLabelFiles ==
    {File(ls) : ls \in SeqsUpTo(PipeLabelLines, MaxPipeLines)}

\* ------------------------------------------------------------------------
\* The novelty pass: src/novelty_check.py, main
\* ------------------------------------------------------------------------

\* the entry names a results table can hold, in sorted order, and the
\* primaryAccession the service reports for each
EntryNames == <<"AAA_HUMAN", "BBB_HUMAN", "CCC_HUMAN", "DDD_HUMAN">>

PrimaryAccession == <<"P00001", "P00002", "P00003", "P00004">>

NumEntries == 2

Entries == {EntryNames[i] : i \in 1..NumEntries}

None == "None"

\* what requests.get(url, timeout=10) can do in entry_name_to_accession:
\* raise (network error, timeout), answer with a status other than 200,
\* answer 200 with no results, answer 200 with a result
AccessionResponses == {"exception", "status_error", "no_results", "found"}

\* and in is_kunitz_annotated: raise, answer with a status other than 200,
\* answer 200 with or without a Kunitz feature, keyword or Pfam reference
AnnotationResponses == {"exception", "status_error", "kunitz", "not_kunitz"}

\* entry_name_to_accession, lines 31-48
entry_name_to_accession(entry_name, response) ==
    IF response = "found"
    THEN PrimaryAccession[CHOOSE i \in DOMAIN EntryNames :
                              EntryNames[i] = entry_name]
    ELSE None

\* is_kunitz_annotated, lines 64-89: False unless the entry was fetched and
\* carries a Kunitz annotation
is_kunitz_annotated(response) == response = "kunitz"

\* sorted(entry_names)
RECURSIVE SortedEntries(_, _)
SortedEntries(i, S) ==
    IF i > Len(EntryNames) THEN <<>>
    ELSE (IF EntryNames[i] \in S THEN << EntryNames[i] >> ELSE <<>>)
         \o SortedEntries(i + 1, S)

NoveltyIdle ==
    /\ n_pc = "idle"
    /\ n_todo = <<>>
    /\ n_entry = None
    /\ n_accession = None
    /\ n_novel = <<>>
    /\ n_requests = <<>>
    /\ n_out = AbsentFile

\* ------------------------------------------------------------------------
\* Runs over one results/ directory: load_config (src/hmm.py) and the
\* output paths of hmm.py and novelty_check.py
\* ------------------------------------------------------------------------

\* the clock counts ticks; TicksPerMinute of them make a minute
TicksPerMinute == 2

MaxTick == 3

MaxRuns == 3

\* datetime.now().strftime("%Y%m%d_%H%M"): the minute, seconds dropped
MinuteNames == <<"20250101_0000", "20250101_0001", "20250101_0002",
                 "20250101_0003", "20250101_0004">>

strftime(now) == MinuteNames[(now \div TicksPerMinute) + 1]

\* Path(config['output_dir']) / f"run_{run_id}"
RunDir(run_id) == <<"results", "run", run_id>>

ResultsDir == << "results" >>

RunDirs == {RunDir(strftime(t)) : t \in 0..MaxTick}

\* the files hmm.py writes into output_dir, in the order it writes them
ArtifactOrder == <<"seed.fasta", "kunitz.hmm", "hmmsearch_validation.tbl",
                   "hmmsearch_negative.tbl", "false_positives.txt",
                   "false_negatives.txt", "hmmsearch_swissprot.tbl",
                   "hmm_logo.png">>

PathOf(dir, name) == [dir |-> dir, name |-> name]

\* open("results/novel_kunitz_candidates.txt", "w")
NoveltyPath == PathOf(ResultsDir, "novel_kunitz_candidates.txt")

Paths ==
    {PathOf(d, ArtifactOrder[i]) : d \in RunDirs, i \in DOMAIN ArtifactOrder}
    \cup {NoveltyPath}

\* get_latest_results_tbl, lines 13-23: the table of the most recently
\* modified run_* directory, or "raise"
get_latest_results_tbl(dirs, fs) ==
    IF dirs = <<>> THEN "raise"
    ELSE IF fs[PathOf(dirs[Len(dirs)], "hmmsearch_swissprot.tbl")] = 0
         THEN "raise"
         ELSE "found"

\* the directories with d moved to the most recently modified place
Touched(dirs, d) ==
    SelectSeq(dirs, LAMBDA x : x # d) \o << d >>

RunIdle ==
    /\ r_clock = 0
    /\ r_run = 0
    /\ r_kind = "idle"
    /\ r_dir = ResultsDir
    /\ r_step = 0
    /\ r_status = [i \in 1..MaxRuns |-> "none"]
    /\ r_dirs = <<>>
    /\ r_fs = [p \in Paths |-> 0]
    /\ r_log = {}

\* ------------------------------------------------------------------------
\* Idle values: what a specification leaves the other parts' variables at
\* ------------------------------------------------------------------------

PipeIdle ==
    /\ pc = "idle"
    /\ child = "none"
    /\ exit_code = "none"
    /\ stdout = <<>>
    /\ stderr = <<>>
    /\ files = [n \in ArtifactNames |-> AbsentFile]
    /\ validation_labels = AbsentFile
    /\ negative_labels = AbsentFile
    /\ val_predicted = {} /\ val_positives = {} /\ val_negatives = {}
    /\ neg_predicted = {} /\ neg_positives = {} /\ neg_negatives = {}
    /\ all_predicted = {} /\ all_positives = {} /\ all_negatives = {}
    /\ metrics = NoMetrics
    /\ swiss_hits = {}

EvalIdle ==
    /\ e_predicted = {}
    /\ e_positives = {}
    /\ e_negatives = {}
    /\ e_result = NoMetrics
    /\ e_called = FALSE

LabelIdle ==
    /\ l_file = AbsentFile
    /\ l_check = "not called"
    /\ l_result = LabelsExit
    /\ l_loaded = FALSE

HitIdle ==
    /\ h_file = AbsentFile
    /\ h_eval = TbloutExit
    /\ h_nov = TbloutExit
    /\ h_pc = "idle"

\* ------------------------------------------------------------------------
\* SpecEval: evaluate_performance on every input
\* ------------------------------------------------------------------------

InitEval ==
    /\ e_predicted \in SUBSET Ids
    /\ e_positives \in SUBSET Ids
    /\ e_negatives \in SUBSET Ids
    /\ e_result = NoMetrics
    /\ e_called = FALSE
    /\ PipeIdle
    /\ LabelIdle
    /\ HitIdle
    /\ NoveltyIdle
    /\ RunIdle

\* metrics = evaluate_performance(predicted, positives, negatives)
EvalCall ==
    /\ ~e_called
    /\ e_result' = evaluate_performance(e_predicted, e_positives, e_negatives)
    /\ e_called' = TRUE
    /\ UNCHANGED <<e_predicted, e_positives, e_negatives>>
    /\ UNCHANGED notEvalVars

NextEval == EvalCall

SpecEval == InitEval /\ [][NextEval]_vars

\* ------------------------------------------------------------------------
\* SpecHits: the two hit-table parsers on every table
\* ------------------------------------------------------------------------

InitHits ==
    /\ \/ h_file = AbsentFile
       \/ \E k \in 0..MaxHitLines :
             \E ls \in [1..k -> HitLines] : h_file = File(ls)
    /\ h_eval = TbloutExit
    /\ h_nov = TbloutExit
    /\ h_pc = "parse_tblout"
    /\ PipeIdle
    /\ EvalIdle
    /\ LabelIdle
    /\ NoveltyIdle
    /\ RunIdle

\* hits = parse_tblout(tbl_file), in the pipeline
ParseTblout ==
    /\ h_pc = "parse_tblout"
    /\ h_eval' = parse_tblout(h_file)
    /\ h_pc' = "load_hmm_hits"
    /\ UNCHANGED <<h_file, h_nov>>
    /\ UNCHANGED notHitVars

\* entry_names = load_hmm_hits(tbl_file), in the novelty check, on the same
\* table
LoadHmmHits ==
    /\ h_pc = "load_hmm_hits"
    /\ h_nov' = load_hmm_hits(h_file)
    /\ h_pc' = "parsed"
    /\ UNCHANGED <<h_file, h_eval>>
    /\ UNCHANGED notHitVars

NextHits ==
    \/ ParseTblout
    \/ LoadHmmHits

SpecHits == InitHits /\ [][NextHits]_vars

\* ------------------------------------------------------------------------
\* SpecLabels: check_label_txt and load_labels on every label file
\* ------------------------------------------------------------------------

InitLabels ==
    /\ l_file \in LabelFiles
    /\ l_check = "not called"
    /\ l_result = LabelsExit
    /\ l_loaded = FALSE
    /\ PipeIdle
    /\ EvalIdle
    /\ HitIdle
    /\ NoveltyIdle
    /\ RunIdle

\* check_label_txt(path)
CheckLabelTxt ==
    /\ l_check = "not called"
    /\ l_check' = IF check_label_txt(l_file) THEN "True" ELSE "False"
    /\ UNCHANGED <<l_file, l_result, l_loaded>>
    /\ UNCHANGED notLabelVars

\* load_labels(label_file)
LoadLabels ==
    /\ ~l_loaded
    /\ l_result' = load_labels(l_file)
    /\ l_loaded' = TRUE
    /\ UNCHANGED <<l_file, l_check>>
    /\ UNCHANGED notLabelVars

NextLabels ==
    \/ CheckLabelTxt
    \/ LoadLabels

SpecLabels == InitLabels /\ [][NextLabels]_vars

\* ------------------------------------------------------------------------
\* SpecNovelty: one run of novelty_check.py's main
\* ------------------------------------------------------------------------

InitNovelty ==
    /\ n_pc = "load"
    /\ n_todo = <<>>
    /\ n_entry = None
    /\ n_accession = None
    /\ n_novel = <<>>
    /\ n_requests = <<>>
    /\ n_out = AbsentFile
    /\ PipeIdle
    /\ EvalIdle
    /\ LabelIdle
    /\ HitIdle
    /\ RunIdle

\* lines 92-97: entry_names = load_hmm_hits(tbl_file); novel = []
NoveltyLoad ==
    /\ n_pc = "load"
    /\ \E entry_names \in SUBSET Entries :
           n_todo' = SortedEntries(1, entry_names)
    /\ n_novel' = <<>>
    /\ n_pc' = "for"
    /\ UNCHANGED <<n_entry, n_accession, n_requests, n_out>>
    /\ UNCHANGED notNoveltyVars

\* line 98: for entry_name in sorted(entry_names)
NoveltyFor ==
    /\ n_pc = "for"
    /\ IF n_todo = <<>>
       THEN /\ n_pc' = "write"
            /\ UNCHANGED <<n_todo, n_entry>>
       ELSE /\ n_entry' = Head(n_todo)
            /\ n_todo' = Tail(n_todo)
            /\ n_pc' = "accession"
    /\ UNCHANGED <<n_accession, n_novel, n_requests, n_out>>
    /\ UNCHANGED notNoveltyVars

\* lines 101-104: accession = entry_name_to_accession(entry_name);
\* if not accession: continue
NoveltyAccession ==
    /\ n_pc = "accession"
    /\ \E response \in AccessionResponses :
           /\ n_requests' = Append(n_requests,
                  [call |-> "entry_name_to_accession", entry_name |-> n_entry,
                   response |-> response])
           /\ n_accession' = entry_name_to_accession(n_entry, response)
    /\ n_pc' = IF n_accession' = None THEN "for" ELSE "annotation"
    /\ UNCHANGED <<n_todo, n_entry, n_novel, n_out>>
    /\ UNCHANGED notNoveltyVars

\* lines 106-110: if not is_kunitz_annotated(accession): novel.append(...)
NoveltyAnnotation ==
    /\ n_pc = "annotation"
    /\ \E response \in AnnotationResponses :
           /\ n_requests' = Append(n_requests,
                  [call |-> "is_kunitz_annotated", entry_name |-> n_entry,
                   response |-> response])
           /\ n_novel' =
                  IF ~is_kunitz_annotated(response)
                  THEN Append(n_novel, [entry_name |-> n_entry,
                                        accession |-> n_accession])
                  ELSE n_novel
    /\ n_pc' = "for"
    /\ UNCHANGED <<n_todo, n_entry, n_accession, n_out>>
    /\ UNCHANGED notNoveltyVars

\* lines 115-118: the candidates are written, one per line
NoveltyWrite ==
    /\ n_pc = "write"
    /\ n_out' = File(n_novel)
    /\ n_pc' = "done"
    /\ UNCHANGED <<n_todo, n_entry, n_accession, n_novel, n_requests>>
    /\ UNCHANGED notNoveltyVars

NextNovelty ==
    \/ NoveltyLoad
    \/ NoveltyFor
    \/ NoveltyAccession
    \/ NoveltyAnnotation
    \/ NoveltyWrite

SpecNovelty == InitNovelty /\ [][NextNovelty]_vars

\* ------------------------------------------------------------------------
\* SpecRuns: runs of hmm.py and novelty_check.py, one after the other, over
\* the same results/ directory, while the clock advances
\* ------------------------------------------------------------------------

InitRuns ==
    /\ r_clock = 0
    /\ r_run = 0
    /\ r_kind = "none"
    /\ r_dir = ResultsDir
    /\ r_step = 0
    /\ r_status = [i \in 1..MaxRuns |-> "none"]
    /\ r_dirs = <<>>
    /\ r_fs = [p \in Paths |-> 0]
    /\ r_log = {}
    /\ PipeIdle
    /\ EvalIdle
    /\ LabelIdle
    /\ HitIdle
    /\ NoveltyIdle

\* time passes, between runs or during one
Tick ==
    /\ r_clock < MaxTick
    /\ r_clock' = r_clock + 1
    /\ UNCHANGED <<r_run, r_kind, r_dir, r_step, r_status, r_dirs, r_fs, r_log>>
    /\ UNCHANGED notRunVars

\* hmm.py is started: load_config, lines 116-119. mkdir(exist_ok=True)
\* accepts a directory that is already there
StartPipeline ==
    /\ r_kind = "none"
    /\ r_run < MaxRuns
    /\ r_run' = r_run + 1
    /\ r_kind' = "pipeline"
    /\ r_dir' = RunDir(strftime(r_clock))
    /\ r_step' = 1
    /\ r_status' = [r_status EXCEPT ![r_run + 1] = "running"]
    /\ r_dirs' = IF \E i \in DOMAIN r_dirs : r_dirs[i] = r_dir'
                 THEN r_dirs
                 ELSE Append(r_dirs, r_dir')
    /\ UNCHANGED <<r_clock, r_fs, r_log>>
    /\ UNCHANGED notRunVars

\* the run writes its next file into output_dir; seed.fasta is kept when it
\* is already there (lines 219-221)
PipelineWrite ==
    /\ r_kind = "pipeline"
    /\ r_step <= Len(ArtifactOrder)
    /\ LET p == PathOf(r_dir, ArtifactOrder[r_step])
       IN  IF ArtifactOrder[r_step] = "seed.fasta" /\ r_fs[p] # 0
           THEN /\ r_log' = r_log \cup
                        {[path |-> p, run |-> r_run, op |-> "reuse"]}
                /\ UNCHANGED <<r_fs, r_dirs>>
           ELSE /\ r_fs' = [r_fs EXCEPT ![p] = r_run]
                /\ r_log' = r_log \cup
                        {[path |-> p, run |-> r_run, op |-> "write"]}
                /\ r_dirs' = IF r_fs[p] = 0 THEN Touched(r_dirs, r_dir)
                             ELSE r_dirs
    /\ r_step' = r_step + 1
    /\ UNCHANGED <<r_clock, r_run, r_kind, r_dir, r_status>>
    /\ UNCHANGED notRunVars

\* the run ends with sys.exit(1), or with an uncaught exception, instead
\* of writing its next file
PipelineExit ==
    /\ r_kind = "pipeline"
    /\ r_step <= Len(ArtifactOrder)
    /\ r_status' = [r_status EXCEPT ![r_run] = "failed"]
    /\ r_kind' = "none"
    /\ UNCHANGED <<r_clock, r_run, r_dir, r_step, r_dirs, r_fs, r_log>>
    /\ UNCHANGED notRunVars

\* line 292: Pipeline complete
PipelineFinish ==
    /\ r_kind = "pipeline"
    /\ r_step > Len(ArtifactOrder)
    /\ r_status' = [r_status EXCEPT ![r_run] = "ok"]
    /\ r_kind' = "none"
    /\ UNCHANGED <<r_clock, r_run, r_dir, r_step, r_dirs, r_fs, r_log>>
    /\ UNCHANGED notRunVars

\* novelty_check.py is started: get_latest_results_tbl, lines 92 and 13-23
StartNovelty ==
    /\ r_kind = "none"
    /\ r_run < MaxRuns
    /\ r_run' = r_run + 1
    /\ IF get_latest_results_tbl(r_dirs, r_fs) = "raise"
       THEN /\ r_status' = [r_status EXCEPT ![r_run + 1] = "failed"]
            /\ r_kind' = "none"
       ELSE /\ r_status' = [r_status EXCEPT ![r_run + 1] = "running"]
            /\ r_kind' = "novelty"
    /\ UNCHANGED <<r_clock, r_dir, r_step, r_dirs, r_fs, r_log>>
    /\ UNCHANGED notRunVars

\* novelty_check.py, lines 115-118: the candidate list is written
NoveltyListWrite ==
    /\ r_kind = "novelty"
    /\ r_fs' = [r_fs EXCEPT ![NoveltyPath] = r_run]
    /\ r_log' = r_log \cup
           {[path |-> NoveltyPath, run |-> r_run, op |-> "write"]}
    /\ r_status' = [r_status EXCEPT ![r_run] = "ok"]
    /\ r_kind' = "none"
    /\ UNCHANGED <<r_clock, r_run, r_dir, r_step, r_dirs>>
    /\ UNCHANGED notRunVars

NextRuns ==
    \/ Tick
    \/ StartPipeline
    \/ PipelineWrite
    \/ PipelineExit
    \/ PipelineFinish
    \/ StartNovelty
    \/ NoveltyListWrite

SpecRuns == InitRuns /\ [][NextRuns]_vars

\* ------------------------------------------------------------------------
\* Spec: one run of the pipeline
\* ------------------------------------------------------------------------

InitPipe ==
    /\ pc = "load_config"
    /\ child = "none"
    /\ exit_code = "none"
    /\ stdout = <<>>
    /\ stderr = <<>>
    /\ files = [n \in ArtifactNames |-> AbsentFile]
    /\ validation_labels \in PipeLabelFiles
    /\ negative_labels \in PipeLabelFiles
    /\ val_predicted = {} /\ val_positives = {} /\ val_negatives = {}
    /\ neg_predicted = {} /\ neg_positives = {} /\ neg_negatives = {}
    /\ all_predicted = {} /\ all_positives = {} /\ all_negatives = {}
    /\ metrics = NoMetrics
    /\ swiss_hits = {}

Init ==
    /\ InitPipe
    /\ EvalIdle
    /\ LabelIdle
    /\ HitIdle
    /\ NoveltyIdle
    /\ RunIdle

dataVars == <<val_predicted, val_positives, val_negatives,
              neg_predicted, neg_positives, neg_negatives,
              all_predicted, all_positives, all_negatives,
              metrics, swiss_hits>>

inputVars == <<validation_labels, negative_labels>>

\* the run goes on with the next statement
Goto ==
    /\ pc' = NextPc(pc)
    /\ UNCHANGED exit_code

\* print(msg, file=sys.stderr); sys.exit(1), or an uncaught exception
Die(msg) ==
    /\ pc' = "failed"
    /\ exit_code' = "1"
    /\ stderr' = Append(stderr, msg)

\* CONFIG = load_config(): the configuration is read and the output
\* directory made, or "Configuration error" and sys.exit(1)
LoadConfig ==
    /\ pc = "load_config"
    /\ \/ Goto /\ UNCHANGED stderr
       \/ Die(<<"Configuration error">>)
    /\ UNCHANGED <<child, stdout, files, inputVars, dataVars>>
    /\ UNCHANGED notPipeVars

\* lines 219-221: seed.fasta is written unless it is there and not empty;
\* SeqIO may raise on the seed alignment
SeedFasta ==
    /\ pc = "seed_fasta"
    /\ IF ~files["seed.fasta"].exists \/ files["seed.fasta"].data = <<>>
       THEN \/ /\ files' = [files EXCEPT !["seed.fasta"] = File(<< << Tok(">") >> >>)]
               /\ stdout' = Append(stdout, <<"Converted">>)
               /\ Goto /\ UNCHANGED stderr
            \/ /\ Die(<<"Traceback">>)
               /\ UNCHANGED <<files, stdout>>
       ELSE Goto /\ UNCHANGED <<files, stdout, stderr>>
    /\ UNCHANGED <<child, inputVars, dataVars>>
    /\ UNCHANGED notPipeVars

\* lines 224-226: the validation FASTA must exist and not be empty
ValidationFasta ==
    /\ pc = "validation_fasta"
    /\ \/ Goto /\ UNCHANGED stdout
       \/ /\ pc' = "failed"
          /\ exit_code' = "1"
          /\ stdout' = Append(stdout, <<"Validation FASTA missing or empty">>)
    /\ UNCHANGED <<child, stderr, files, inputVars, dataVars>>
    /\ UNCHANGED notPipeVars

\* lines 229-238: check_stockholm and check_fasta answer for the sequence
\* files (either way), check_label_txt for the two label files
CheckFiles ==
    /\ pc = "check_files"
    /\ \/ /\ check_label_txt(validation_labels)
          /\ check_label_txt(negative_labels)
          /\ Goto /\ UNCHANGED stdout
       \/ /\ pc' = "failed"
          /\ exit_code' = "1"
          /\ stdout' = Append(stdout, <<"ERROR: not a valid file">>)
       \/ /\ ~(check_label_txt(validation_labels)
               /\ check_label_txt(negative_labels))
          /\ pc' = "failed"
          /\ exit_code' = "1"
          /\ stdout' = Append(stdout, <<"ERROR: label file">>)
    /\ UNCHANGED <<child, stderr, files, inputVars, dataVars>>
    /\ UNCHANGED notPipeVars

\* run_hmmbuild: the command is printed and the child started
HmmBuildStart ==
    /\ pc = "hmmbuild" /\ child = "none"
    /\ child' = "hmmbuild"
    /\ stdout' = Append(stdout, <<"Building HMM">>)
    /\ UNCHANGED <<pc, exit_code, stderr, files, inputVars, dataVars>>
    /\ UNCHANGED notPipeVars

\* run_hmmbuild: the child has exited, with status 0 and the profile
\* written, or with another status
HmmBuildExit ==
    /\ pc = "hmmbuild" /\ child = "hmmbuild"
    /\ child' = "none"
    /\ \/ /\ run_tool_outcome(0) = "return"
          /\ files' = [files EXCEPT !["kunitz.hmm"] = File(<< << Tok("H") >> >>)]
          /\ Goto /\ UNCHANGED stderr
       \/ /\ stderr' = Append(stderr, <<"hmmbuild failed">>)
          /\ IF run_tool_outcome(1) = "exit"
             THEN pc' = "failed" /\ exit_code' = "1"
             ELSE Goto
          /\ UNCHANGED files
    /\ UNCHANGED <<stdout, inputVars, dataVars>>
    /\ UNCHANGED notPipeVars

\* run_hmmsearch(hmm_file, fasta, output_dir, tag): the command is printed
\* and the child started
HmmSearchStart(tag) ==
    /\ pc = SearchPc(tag) /\ child = "none"
    /\ child' = "hmmsearch"
    /\ stdout' = Append(stdout, <<"Running hmmsearch", tag>>)
    /\ UNCHANGED <<pc, exit_code, stderr, files, inputVars, dataVars>>
    /\ UNCHANGED notPipeVars

\* run_hmmsearch: the child has exited; with status 0 it has written the
\* table of the targets it matched
HmmSearchExit(tag) ==
    /\ pc = SearchPc(tag) /\ child = "hmmsearch"
    /\ child' = "none"
    /\ \/ \E S \in SUBSET PipeIds :
            /\ run_hmmsearch_outcome(0) = "return"
            /\ files' = [files EXCEPT ![TblName(tag)] = TableOf(S)]
            /\ Goto /\ UNCHANGED stderr
       \/ /\ stderr' = Append(stderr, <<"hmmsearch failed">>)
          /\ IF run_hmmsearch_outcome(1) = "exit"
             THEN pc' = "failed" /\ exit_code' = "1"
             ELSE Goto
          /\ UNCHANGED files
    /\ UNCHANGED <<stdout, inputVars, dataVars>>
    /\ UNCHANGED notPipeVars

\* the result of parse_tblout on the cohort's table, or sys.exit(1)
ParseTbl(tag) ==
    /\ pc = ParsePc(tag)
    /\ LET r == parse_tblout(files[TblName(tag)])
       IN  IF r.ok
           THEN /\ val_predicted' =
                     IF tag = "validation" THEN r.hits ELSE val_predicted
                /\ neg_predicted' =
                     IF tag = "negative" THEN r.hits ELSE neg_predicted
                /\ swiss_hits' =
                     IF tag = "swissprot" THEN r.hits ELSE swiss_hits
                /\ stdout' = IF tag = "swissprot"
                             THEN Append(stdout, <<"SwissProt hits">>)
                             ELSE stdout
                /\ Goto /\ UNCHANGED stderr
           ELSE /\ Die(<<"Error parsing tblout file">>)
                /\ UNCHANGED <<val_predicted, neg_predicted, swiss_hits, stdout>>
    /\ UNCHANGED <<child, files, inputVars, val_positives, val_negatives,
                   neg_positives, neg_negatives, all_predicted, all_positives,
                   all_negatives, metrics>>
    /\ UNCHANGED notPipeVars

\* val_positives, val_negatives = load_labels(validation_labels)
LabelsValidation ==
    /\ pc = "labels_validation"
    /\ LET r == load_labels(validation_labels)
       IN  IF r.ok
           THEN /\ val_positives' = r.pos
                /\ val_negatives' = r.neg
                /\ Goto /\ UNCHANGED stderr
           ELSE /\ Die(<<"Error loading labels">>)
                /\ UNCHANGED <<val_positives, val_negatives>>
    /\ UNCHANGED <<child, stdout, files, inputVars, val_predicted,
                   neg_predicted, neg_positives, neg_negatives, all_predicted,
                   all_positives, all_negatives, metrics, swiss_hits>>
    /\ UNCHANGED notPipeVars

\* neg_positives, neg_negatives = load_labels(negative_labels)
LabelsNegative ==
    /\ pc = "labels_negative"
    /\ LET r == load_labels(negative_labels)
       IN  IF r.ok
           THEN /\ neg_positives' = r.pos
                /\ neg_negatives' = r.neg
                /\ Goto /\ UNCHANGED stderr
           ELSE /\ Die(<<"Error loading labels">>)
                /\ UNCHANGED <<neg_positives, neg_negatives>>
    /\ UNCHANGED <<child, stdout, files, inputVars, val_predicted,
                   neg_predicted, val_positives, val_negatives, all_predicted,
                   all_positives, all_negatives, metrics, swiss_hits>>
    /\ UNCHANGED notPipeVars

\* lines 255-257
Combine ==
    /\ pc = "combine"
    /\ all_predicted' = combine_predicted(val_predicted, neg_predicted)
    /\ all_positives' = combine_positives(val_positives, neg_positives)
    /\ all_negatives' = combine_negatives(val_negatives, neg_negatives)
    /\ Goto
    /\ UNCHANGED <<child, stdout, stderr, files, inputVars, val_predicted,
                   val_positives, val_negatives, neg_predicted, neg_positives,
                   neg_negatives, metrics, swiss_hits>>
    /\ UNCHANGED notPipeVars

\* lines 260-264: the metrics are computed and printed
Evaluate ==
    /\ pc = "evaluate"
    /\ metrics' = evaluate_performance(all_predicted, all_positives,
                                       all_negatives)
    /\ stdout' = Append(stdout, <<"Combined Validation Performance">>)
    /\ Goto
    /\ UNCHANGED <<child, stderr, files, inputVars, val_predicted,
                   val_positives, val_negatives, neg_predicted, neg_positives,
                   neg_negatives, all_predicted, all_positives, all_negatives,
                   swiss_hits>>
    /\ UNCHANGED notPipeVars

\* lines 267-275: false_positives.txt is written; open() or write() may
\* raise, and a failed write leaves no file or a truncated one
WriteFp ==
    /\ pc = "write_fp"
    /\ \/ /\ files' = [files EXCEPT !["false_positives.txt"] =
                         File(IdLines(all_predicted \cap all_negatives))]
          /\ Goto /\ UNCHANGED stderr
       \/ /\ Die(<<"Traceback">>)
          /\ \E f \in {AbsentFile, File(<<>>)} :
               files' = [files EXCEPT !["false_positives.txt"] = f]
    /\ UNCHANGED <<child, stdout, inputVars, dataVars>>
    /\ UNCHANGED notPipeVars

\* lines 277-282: false_negatives.txt is written, then both counts printed
WriteFn ==
    /\ pc = "write_fn"
    /\ \/ /\ files' = [files EXCEPT !["false_negatives.txt"] =
                         File(IdLines(all_positives \ all_predicted))]
          /\ stdout' = stdout \o << <<"False Positives saved">>,
                                    <<"False Negatives saved">> >>
          /\ Goto /\ UNCHANGED stderr
       \/ /\ Die(<<"Traceback">>)
          /\ \E f \in {AbsentFile, File(<<>>)} :
               files' = [files EXCEPT !["false_negatives.txt"] = f]
          /\ UNCHANGED stdout
    /\ UNCHANGED <<child, inputVars, dataVars>>
    /\ UNCHANGED notPipeVars

\* run_hmmlogo: the command is printed and the child started
HmmLogoStart ==
    /\ pc = "hmmlogo" /\ child = "none"
    /\ child' = "hmmlogo"
    /\ stdout' = Append(stdout, <<"Generating HMM logo">>)
    /\ UNCHANGED <<pc, exit_code, stderr, files, inputVars, dataVars>>
    /\ UNCHANGED notPipeVars

\* run_hmmlogo: the child has exited with status rc
HmmLogoExit ==
    /\ pc = "hmmlogo" /\ child = "hmmlogo"
    /\ child' = "none"
    /\ \E rc \in {0, 1} :
         IF run_tool_outcome(rc) = "return"
         THEN /\ files' = [files EXCEPT !["hmm_logo.png"] = File(<< << Tok("L") >> >>)]
              /\ stdout' = Append(stdout, <<"HMM logo saved">>)
              /\ Goto /\ UNCHANGED stderr
         ELSE /\ Die(<<"Failed to generate HMM logo">>)
              /\ UNCHANGED <<files, stdout>>
    /\ UNCHANGED <<inputVars, dataVars>>
    /\ UNCHANGED notPipeVars

\* line 292, and the interpreter's exit with status 0
Finish ==
    /\ pc = "finish"
    /\ stdout' = Append(stdout, <<"Pipeline finished">>)
    /\ pc' = "done"
    /\ exit_code' = "0"
    /\ UNCHANGED <<child, stderr, files, inputVars, dataVars>>
    /\ UNCHANGED notPipeVars

Next ==
    \/ LoadConfig
    \/ SeedFasta
    \/ ValidationFasta
    \/ CheckFiles
    \/ HmmBuildStart
    \/ HmmBuildExit
    \/ \E tag \in Tags : HmmSearchStart(tag)
    \/ \E tag \in Tags : HmmSearchExit(tag)
    \/ \E tag \in Tags : ParseTbl(tag)
    \/ LabelsValidation
    \/ LabelsNegative
    \/ Combine
    \/ Evaluate
    \/ WriteFp
    \/ WriteFn
    \/ HmmLogoStart
    \/ HmmLogoExit
    \/ Finish

Spec == Init /\ [][Next]_vars

\* ------------------------------------------------------------------------
\* Properties
\* ------------------------------------------------------------------------

\* number of identifiers of the universe satisfying both memberships,
\* counted one identifier at a time
RECURSIVE CountIn(_, _, _, _, _)
CountIn(i, P, inP, Q, inQ) ==
    IF i = 0 THEN 0
    ELSE CountIn(i - 1, P, inP, Q, inQ)
         + (IF (IdNames[i] \in P) = inP /\ (IdNames[i] \in Q) = inQ
            THEN 1 ELSE 0)

\* C1: after evaluate_performance has run, TP counts the identifiers that are
\* predicted and positive, FP those predicted and negative, FN the positives
\* not predicted and TN the negatives not predicted; and the spec's example
\* ({a,b,c}, {a,b,d}, {c,e}) gives 2, 1, 1, 1.
C1_ConfusionCounts ==
    e_called =>
        /\ e_result.TP = CountIn(NumIds, e_predicted, TRUE, e_positives, TRUE)
        /\ e_result.FP = CountIn(NumIds, e_predicted, TRUE, e_negatives, TRUE)
        /\ e_result.FN = CountIn(NumIds, e_predicted, FALSE, e_positives, TRUE)
        /\ e_result.TN = CountIn(NumIds, e_predicted, FALSE, e_negatives, TRUE)
        /\ (/\ e_predicted = {"a", "b", "c"}
            /\ e_positives = {"a", "b", "d"}
            /\ e_negatives = {"c", "e"})
           => (/\ e_result.TP = 2 /\ e_result.FP = 1
               /\ e_result.FN = 1 /\ e_result.TN = 1)

C1_Witness ==
    /\ e_called
    /\ e_predicted = {"a", "b", "c"}
    /\ e_positives = {"a", "b", "d"}
    /\ e_negatives = {"c", "e"}
    /\ e_result.TP = 2
    /\ e_result.TN = 1

\* --- label loader

\* the lines of a label file that are neither comments nor blank
DataLines(file) ==
    {i \in DOMAIN file.data :
        ~StartsWithHash(file.data[i]) /\ ~IsBlank(file.data[i])}

WellFormedLabelLine(line) ==
    Len(line) = 2 /\ line[2] \in {Tok("1"), Tok("0")}

\* C6: load_labels fails exactly when some non-comment, non-blank line does
\* not have two tokens or has a label other than "1" and "0"; and when it
\* succeeds the negatives are the identifiers labelled "0" and no others.
C6_StrictLabelFormat ==
    (l_loaded /\ l_file.exists) =>
        /\ l_result.ok <=>
               \A i \in DataLines(l_file) : WellFormedLabelLine(l_file.data[i])
        /\ l_result.ok =>
               l_result.neg = {l_file.data[i][1] : i \in
                                 {j \in DataLines(l_file) :
                                     l_file.data[j][2] = Tok("0")}}

\* C7: the positives and negatives load_labels returns are disjoint.
C7_LoadedSetsDisjoint ==
    (l_loaded /\ l_result.ok) => l_result.pos \cap l_result.neg = {}

\* --- hit-table parsers

\* the raw identifiers of a table: the first token of every line that is
\* neither a comment nor blank
RawIdsOf(file) ==
    {file.data[i][1] : i \in
        {j \in DOMAIN file.data :
            ~StartsWithHash(file.data[j]) /\ ~IsBlank(file.data[j])}}

\* the positions of character c in s
Positions(s, c) == {i \in DOMAIN s : s[i] = c}

Lowest(S) == CHOOSE i \in S : \A j \in S : i <= j

Highest(S) == CHOOSE i \in S : \A j \in S : j <= i

\* the database prefixes of db|ACCESSION|ENTRY_NAME ("s" is the one the
\* bounded alphabet can spell)
DbPrefixes == {<<"s">>, <<"s", "p">>, <<"t", "r">>}

\* raw has exactly two pipes, a database prefix before the first and a
\* non-empty accession between them
IsDbForm(raw) ==
    /\ Cardinality(Positions(raw, "|")) = 2
    /\ SubSeq(raw, 1, Lowest(Positions(raw, "|")) - 1) \in DbPrefixes
    /\ Highest(Positions(raw, "|")) > Lowest(Positions(raw, "|")) + 1

AccessionOf(raw) ==
    SubSeq(raw, Lowest(Positions(raw, "|")) + 1,
                Highest(Positions(raw, "|")) - 1)

\* the substring before the first '/', the whole string when there is none
BeforeSlash(raw) ==
    IF Positions(raw, "/") = {} THEN raw
    ELSE SubSeq(raw, 1, Lowest(Positions(raw, "/")) - 1)

\* the canonical identifier of the data model
Canonical(raw) == IF IsDbForm(raw) THEN AccessionOf(raw) ELSE BeforeSlash(raw)

EntryAplp2 == <<"A", "P", "L", "P", "2", "_", "H", "U", "M", "A", "N">>

AccessionP84875 == <<"P", "8", "4", "8", "7", "5">>

\* C8 as claimed: both parsers store the canonical form of every raw
\* identifier of the table.
C8_HitsCanonical ==
    (h_pc = "parsed" /\ h_file.exists) =>
        /\ h_eval.hits = {Canonical(raw) : raw \in RawIdsOf(h_file)}
        /\ h_nov.hits = {Canonical(raw) : raw \in RawIdsOf(h_file)}

\* C8 as amended: parse_tblout stores every raw identifier unchanged, and
\* load_hmm_hits stores its substring before the first '/' (all of it when
\* it has none) whether or not it has the db|ACCESSION|ENTRY_NAME form; so
\* "APLP2_HUMAN/309-361" is stored as "APLP2_HUMAN" by load_hmm_hits only and
\* "sp|P84875|PCPI_SABMA" is stored unchanged by both.
C8_HitsAsParsed ==
    (h_pc = "parsed" /\ h_file.exists) =>
        /\ h_eval.ok /\ h_nov.ok
        /\ h_eval.hits = RawIdsOf(h_file)
        /\ h_nov.hits = {BeforeSlash(raw) : raw \in RawIdsOf(h_file)}
        /\ RawRanged \in RawIdsOf(h_file) =>
              (RawRanged \in h_eval.hits /\ EntryAplp2 \in h_nov.hits)
        /\ RawSwissProt \in RawIdsOf(h_file) =>
              (/\ RawSwissProt \in h_eval.hits
               /\ RawSwissProt \in h_nov.hits
               /\ AccessionP84875 \notin h_eval.hits \cup h_nov.hits)

C8_Witness ==
    /\ h_pc = "parsed"
    /\ h_file.exists
    /\ RawIdsOf(h_file) = {RawRanged}
    /\ h_eval.hits = {RawRanged}
    /\ h_nov.hits = {EntryAplp2}

\* --- the pipeline run

Printed(msg) == \E i \in DOMAIN stdout : stdout[i] = msg

\* the confusion matrix has been computed and printed
Evaluated == Printed(<<"Combined Validation Performance">>)

SearchStarted(tag) == Printed(<<"Running hmmsearch", tag>>)

\* some run_hmmsearch has reported a non-zero exit
SearchFailed == \E i \in DOMAIN stderr : stderr[i] = <<"hmmsearch failed">>

\* the cohort of the search started last
LastSearchTag ==
    stdout[Highest({i \in DOMAIN stdout : stdout[i][1] = "Running hmmsearch"})][2]

IsPrefix(s, t) == Len(s) <= Len(t) /\ \A i \in DOMAIN s : s[i] = t[i]

\* the messages that open a stage
IsStageStart(msg) ==
    msg \in {<<"Building HMM">>, <<"Combined Validation Performance">>,
             <<"Generating HMM logo">>, <<"Pipeline finished">>}
            \cup {<<"Running hmmsearch", tag>> : tag \in Tags}

StageStarts == SelectSeq(stdout, IsStageStart)

\* the stages in the order the code runs them
CodeStageOrder ==
    << <<"Building HMM">>,
       <<"Running hmmsearch", "validation">>,
       <<"Running hmmsearch", "negative">>,
       <<"Combined Validation Performance">>,
       <<"Running hmmsearch", "swissprot">>,
       <<"Generating HMM logo">>,
       <<"Pipeline finished">> >>

\* C2 as claimed: every cohort's search, the unlabeled database's included,
\* comes before the evaluation: no search is started once the evaluation has
\* begun, and a run that finishes has evaluated only after all three
\* searches.
C2_SearchesBeforeEvaluate ==
    /\ \A i, j \in DOMAIN stdout :
          (/\ stdout[i] = <<"Combined Validation Performance">>
           /\ stdout[j][1] = "Running hmmsearch") => j < i
    /\ Evaluated => \A tag \in Tags : SearchStarted(tag)

\* C2 as amended: the stages start in the order BUILD, search of the
\* validation cohort, search of the negative-control cohort, EVALUATE (with
\* the FP/FN lists), search of the unlabeled database, logo, DONE; a stage
\* starts only when the previous one has finished (no child tool is still
\* running and its artifacts are written); the unlabeled database is
\* searched only after EVALUATE has finished.
C2_StagesInCodeOrder ==
    /\ IsPrefix(StageStarts, CodeStageOrder)
    /\ child # "none" =>
          /\ pc \in {"hmmbuild", "hmmlogo"} \cup {SearchPc(tag) : tag \in Tags}
          /\ stdout[Len(stdout)] \in
                {<<"Building HMM">>, <<"Generating HMM logo">>}
                \cup {<<"Running hmmsearch", tag>> : tag \in Tags}
    /\ \A tag \in Tags : SearchStarted(tag) => files["kunitz.hmm"].exists
    /\ SearchStarted("negative") => files["hmmsearch_validation.tbl"].exists
    /\ Evaluated =>
          /\ files["hmmsearch_validation.tbl"].exists
          /\ files["hmmsearch_negative.tbl"].exists
          /\ ~SearchStarted("swissprot") => ~files["hmmsearch_swissprot.tbl"].exists
    /\ SearchStarted("swissprot") =>
          /\ Evaluated
          /\ files["false_positives.txt"].exists
          /\ files["false_negatives.txt"].exists
    /\ Printed(<<"Generating HMM logo">>) =>
          files["hmmsearch_swissprot.tbl"].exists
    /\ pc = "done" => StageStarts = CodeStageOrder

C2_Witness ==
    /\ pc = "done"
    /\ StageStarts = CodeStageOrder
    /\ files["hmmsearch_swissprot.tbl"].exists

\* the identifiers a label file gives label l
Labelled(file, l) ==
    {file.data[i][1] : i \in {j \in DataLines(file) : file.data[j][2] = l}}

\* the identifiers a label file gives a label other than "1"
NotLabelledOne(file) ==
    {file.data[i][1] : i \in
        {j \in DataLines(file) : file.data[j][2] # Tok("1")}}

\* C3 as claimed: the evaluated sets are the unions over all three cohorts.
C3_UnionOfAllCohorts ==
    pc = "done" =>
        /\ all_predicted = val_predicted \cup neg_predicted \cup swiss_hits
        /\ all_positives = val_positives \cup neg_positives
        /\ all_negatives = val_negatives \cup neg_negatives

\* C3 as amended: predicted is the union of the hit sets of the validation
\* and the negative-control tables (not of the unlabeled database's),
\* allPositives is the validation label file's positives alone, and
\* allNegatives is the union of the two label files' negatives; the
\* confusion matrix is computed from exactly these sets.
C3_SetsEvaluated ==
    Evaluated =>
        /\ all_predicted = RawIdsOf(files["hmmsearch_validation.tbl"])
                            \cup RawIdsOf(files["hmmsearch_negative.tbl"])
        /\ all_positives = Labelled(validation_labels, Tok("1"))
        /\ all_negatives = NotLabelledOne(validation_labels)
                            \cup NotLabelledOne(negative_labels)
        /\ metrics.TP = Cardinality(all_predicted \cap all_positives)
        /\ metrics.FP = Cardinality(all_predicted \cap all_negatives)
        /\ metrics.FN = Cardinality(all_positives \ all_predicted)
        /\ metrics.TN = Cardinality(all_negatives \ all_predicted)

C3_Witness ==
    /\ pc = "done"
    /\ neg_positives # {}
    /\ all_positives = {}
    /\ swiss_hits # {}
    /\ all_predicted = {}

\* C4 as claimed: once any cohort's search has failed, no confusion matrix
\* has been computed and neither list has been written.
C4_NoEvaluationOnSearchFailure ==
    SearchFailed =>
        /\ ~Evaluated
        /\ ~files["false_positives.txt"].exists
        /\ ~files["false_negatives.txt"].exists

\* C4 as amended: a failed search ends the run with exit status 1 and
\* nothing runs after it; when the failed search is the validation or the
\* negative-control one, no confusion matrix has been computed and neither
\* list written; when it is the unlabeled database's, the confusion matrix
\* and both lists of the two labeled cohorts are already there.
C4_SearchFailureFatal ==
    SearchFailed =>
        /\ pc = "failed" /\ exit_code = "1" /\ child = "none"
        /\ swiss_hits = {}
        /\ ~files["hmm_logo.png"].exists
        /\ ~files[TblName(LastSearchTag)].exists
        /\ LastSearchTag \in {"validation", "negative"} =>
              /\ ~Evaluated
              /\ metrics = NoMetrics
              /\ ~files["false_positives.txt"].exists
              /\ ~files["false_negatives.txt"].exists
        /\ LastSearchTag = "swissprot" =>
              /\ Evaluated
              /\ files["false_positives.txt"].exists
              /\ files["false_negatives.txt"].exists

C4_Witness ==
    /\ SearchFailed
    /\ LastSearchTag = "swissprot"
    /\ pc = "failed"
    /\ files["false_positives.txt"].exists

\* C5: whenever an evaluation has been carried out, allPositives and
\* allNegatives are disjoint (a label conflict stops the run before).
C5_EvaluatedSetsDisjoint ==
    Evaluated => all_positives \cap all_negatives = {}

\* ------------------------------------------------------------------------
\* The novelty pass and failed requests
\* ------------------------------------------------------------------------

\* a request that failed: network error or timeout (an exception), or a
\* status other than 200
FailedResponses == {"exception", "status_error"}

\* the entry names whose accession lookup or annotation lookup failed
FailedEntries ==
    {n_requests[i].entry_name :
        i \in {j \in DOMAIN n_requests :
                  n_requests[j].response \in FailedResponses}}

ListedIn(list) == {list[i].entry_name : i \in DOMAIN list}

\* C9: an identifier for which a request of the annotation service failed,
\* in the accession lookup or in the annotation lookup, is not in the novel
\* bucket and is never written to the candidate list; the pass goes on with
\* the next identifier.
C9_FailedLookupExcluded ==
    /\ FailedEntries \cap ListedIn(n_novel) = {}
    /\ n_out.exists => FailedEntries \cap ListedIn(n_out.data) = {}

\* ------------------------------------------------------------------------
\* Runs and their directories
\* ------------------------------------------------------------------------

\* C10: every run writes its files into a directory no other run writes
\* to, so a later run never overwrites or reuses a file that an earlier
\* successful run produced.
C10_RunScopedArtifacts ==
    /\ \A a \in r_log : \A b \in r_log :
           a.run # b.run => a.path.dir # b.path.dir
    /\ \A a \in r_log : \A b \in r_log :
           (a.path = b.path /\ a.run < b.run /\ a.op = "write")
               => r_status[a.run] # "ok"

\* ------------------------------------------------------------------------
\* Failures of the external tools
\* ------------------------------------------------------------------------

\* run_hmmbuild has reported a non-zero exit
BuildFailed == \E i \in DOMAIN stderr : stderr[i] = <<"hmmbuild failed">>

\* how many times the invocation announced by msg was started
StartsOf(msg) == Cardinality({i \in DOMAIN stdout : stdout[i] = msg})

\* C11: a non-zero exit of hmmbuild or of hmmsearch is fatal and not
\* retried: the run has ended with exit status 1, the failing invocation
\* was started once and is the last thing the run did, and no later stage
\* (a later search, the evaluation and the FP/FN lists when they come after
\* it, the logo) has run.
C11_ToolFailureFatal ==
    /\ BuildFailed =>
          /\ pc = "failed" /\ exit_code = "1" /\ child = "none"
          /\ stdout[Len(stdout)] = <<"Building HMM">>
          /\ StartsOf(<<"Building HMM">>) = 1
          /\ \A tag \in Tags : ~SearchStarted(tag)
          /\ ~Evaluated /\ metrics = NoMetrics
          /\ ~Printed(<<"Generating HMM logo">>)
          /\ \A n \in ArtifactNames \ {"seed.fasta"} : ~files[n].exists
    /\ SearchFailed =>
          /\ pc = "failed" /\ exit_code = "1" /\ child = "none"
          /\ stdout[Len(stdout)] = <<"Running hmmsearch", LastSearchTag>>
          /\ StartsOf(<<"Running hmmsearch", LastSearchTag>>) = 1
          /\ ~files[TblName(LastSearchTag)].exists
          /\ ~Printed(<<"Generating HMM logo">>)
          /\ ~files["hmm_logo.png"].exists
          /\ LastSearchTag = "validation" => ~SearchStarted("negative")
          /\ LastSearchTag # "swissprot" =>
                /\ ~SearchStarted("swissprot")
                /\ ~Evaluated /\ metrics = NoMetrics
                /\ ~files["false_positives.txt"].exists
                /\ ~files["false_negatives.txt"].exists

C11_Witness ==
    /\ BuildFailed
    /\ pc = "failed"
    /\ exit_code = "1"
    /\ files["seed.fasta"].exists
    /\ stdout[Len(stdout)] = <<"Building HMM">>

\* ------------------------------------------------------------------------
\* The metrics of evaluate_performance
\* ------------------------------------------------------------------------

\* a ratio that was computed (its division did not fail) and lies in [0,1]
InUnitInterval(r) == r.den > 0 /\ 0 <= r.num /\ r.num <= r.den

IsZero(r) == r.den > 0 /\ r.num = 0

MetricNames == {"accuracy", "precision", "recall", "f1"}

\* C12: after evaluate_performance has run, accuracy, precision, recall and
\* f1 each lie in [0,1]; a ratio whose denominator is zero is 0 and no
\* division by zero happens; with empty positives and empty negatives all
\* four are 0.
C12_MetricsInRange ==
    e_called =>
        /\ \A m \in MetricNames : InUnitInterval(e_result[m])
        /\ e_result.TP + e_result.TN + e_result.FP + e_result.FN = 0
              => IsZero(e_result.accuracy)
        /\ e_result.TP + e_result.FP = 0 => IsZero(e_result.precision)
        /\ e_result.TP + e_result.FN = 0 => IsZero(e_result.recall)
        /\ (IsZero(e_result.precision) /\ IsZero(e_result.recall))
              => IsZero(e_result.f1)
        /\ (e_positives = {} /\ e_negatives = {})
              => \A m \in MetricNames : IsZero(e_result[m])

C12_Witness ==
    /\ e_called
    /\ e_positives = {}
    /\ e_negatives = {}
    /\ e_predicted = {"a", "b"}
    /\ \A m \in MetricNames : e_result[m] = ZeroRatio

\* the four counts of a result
Counts(r) == <<r.TP, r.FP, r.FN, r.TN>>

\* C14: after evaluate_performance has run, TP + FN = |positives| and
\* FP + TN = |negatives|; evaluating with one more predicted identifier that
\* is neither a positive nor a negative gives the same four counts; and when
\* positives and negatives are disjoint, TP + FP + FN + TN is the size of
\* their union.
C14_CountIdentities ==
    e_called =>
        /\ e_result.TP + e_result.FN = Cardinality(e_positives)
        /\ e_result.FP + e_result.TN = Cardinality(e_negatives)
        /\ \A x \in Ids \ (e_positives \cup e_negatives) :
              Counts(evaluate_performance(e_predicted \cup {x}, e_positives,
                                          e_negatives)) = Counts(e_result)
        /\ e_positives \cap e_negatives = {} =>
              e_result.TP + e_result.FP + e_result.FN + e_result.TN
                  = Cardinality(e_positives \cup e_negatives)

C14_Witness ==
    /\ e_called
    /\ e_predicted = {"a", "c"}
    /\ e_positives = {"a", "b"}
    /\ e_negatives = {"c", "d"}
    /\ "e" \notin e_predicted \cup e_positives \cup e_negatives
    /\ Counts(e_result) = <<1, 1, 1, 1>>

\* ------------------------------------------------------------------------
\* Persistence of the evaluation's lists
\* ------------------------------------------------------------------------

\* the run has stopped with a failure
RunStopped == pc = "failed"

\* the EVALUATE stage has completed: both lists written and reported
EvaluateCompleted == Printed(<<"False Negatives saved">>)

\* C13: the lists of the EVALUATE stage are persisted all or nothing: when
\* the run has stopped before that stage completed (a failed write between
\* the two lists included), neither false_positives.txt nor
\* false_negatives.txt exists.
C13_ListsAllOrNothing ==
    (RunStopped /\ ~EvaluateCompleted) =>
        /\ ~files["false_positives.txt"].exists
        /\ ~files["false_negatives.txt"].exists

====
